---- MODULE Spec2Model ----
(***************************************************************************)
(* A state-machine model of src/main.py: the incremental crawl controller  *)
(* (main), the page sequence generator (iter_list_pages) and the           *)
(* pagination discoverer (discover_pagination_mode), together with the     *)
(* pure helpers they use (set_query_param, parse_list_page, target_path,   *)
(* sanitize_filename).                                                     *)
(*                                                                         *)
(* Text is a sequence of one-character strings; the empty sequence stands  *)
(* for both None and "" (Python's `or` treats them alike).                 *)
(***************************************************************************)
EXTENDS Integers, Sequences, FiniteSets, TLC

\* ------------------------------------------------------------------ bounds
\* Number of consecutive runs of main that are followed.
MaxRuns == 2
\* Largest value of --max-pages that is tried (0 = no cap).
MaxCap == 2
\* Depth of the site: a listing page whose page_no is beyond this is empty.
MaxPageNo == 2

\* ------------------------------------------------------- program constants
\* sanitize_filename's default max_len.
max_len == 180

\* ------------------------------------------------------------ text helpers
Empty == << >>

\* str() of a non-negative integer, as decimal digits.
Digits == <<"0", "1", "2", "3", "4", "5", "6", "7", "8", "9">>
RECURSIVE Str(_)
Str(n) == IF n < 10 THEN <<Digits[n + 1]>>
          ELSE Str(n \div 10) \o <<Digits[(n % 10) + 1]>>

IsSpace(c) == c \in {" ", "\t", "\n"}

\* re.sub(r'[\\/:*?"<>|]', "_", name)
ForbiddenChars == {"\\", "/", ":", "*", "?", "\"", "<", ">", "|"}
ReplaceForbidden(s) ==
    [i \in 1..Len(s) |-> IF s[i] \in ForbiddenChars THEN "_" ELSE s[i]]

\* re.sub(r"\s+", " ", name): every run of whitespace becomes one blank.
RECURSIVE CollapseSpaces(_)
CollapseSpaces(s) ==
    IF s = Empty THEN Empty
    ELSE IF IsSpace(Head(s))
         THEN IF Len(s) > 1 /\ IsSpace(s[2])
              THEN CollapseSpaces(Tail(s))
              ELSE <<" ">> \o CollapseSpaces(Tail(s))
         ELSE <<Head(s)>> \o CollapseSpaces(Tail(s))

\* str.lstrip / str.rstrip / str.strip with a set of characters.
RECURSIVE LStrip(_, _)
LStrip(s, cs) == IF s # Empty /\ Head(s) \in cs THEN LStrip(Tail(s), cs) ELSE s
RECURSIVE RStrip(_, _)
RStrip(s, cs) == IF s # Empty /\ s[Len(s)] \in cs
                 THEN RStrip(SubSeq(s, 1, Len(s) - 1), cs) ELSE s
Strip(s, cs) == RStrip(LStrip(s, cs), cs)
Whitespace == {" ", "\t", "\n"}

sanitize_filename(name) ==
    LET a == ReplaceForbidden(name)
        b == Strip(CollapseSpaces(a), Whitespace)
        c == Strip(b, {".", " "})
    IN  IF Len(c) > max_len THEN RStrip(SubSeq(c, 1, max_len), Whitespace) ELSE c

\* target_path: out_dir is fixed for a run, so a path is its file name.
target_path(unit, date, title) ==
    sanitize_filename(unit \o <<"_">> \o date \o <<"_">> \o title \o <<".", "m", "d">>)

\* ------------------------------------------------------------------- URLs
\* A URL is its query: a function from parameter names to values.
\* LIST_URL = ...news_list?lang=ch&folderName=ch&id=14
LIST_URL == [k \in {"lang", "folderName", "id"} |->
                IF k = "id" THEN <<"1", "4">> ELSE <<"c", "h">>]

set_query_param(url, key, value) ==
    [k \in DOMAIN url \cup {key} |-> IF k = key THEN value ELSE url[k]]

\* ------------------------------------------------ the site's listing entries
\* The anchors a listing page can carry that pass parse_list_page's filters
\* (NewsItem: url, date, unit, title).  The second title holds a character
\* that sanitize_filename replaces.
NewsItems ==
    { [url |-> 1, date |-> <<"1">>, unit |-> <<"U">>, title |-> <<"A">>],
      [url |-> 2, date |-> <<"1">>, unit |-> <<"U">>, title |-> <<"B", "?">>] }

Item(u) == CHOOSE it \in NewsItems : it.url = u

\* The raw listing pages the site can answer with: no anchor, one, two, and
\* the same anchor twice.
RawPages ==
    {Empty, <<Item(1)>>, <<Item(1), Item(2)>>, <<Item(2), Item(2)>>}

\* parse_list_page with `if it.url not in uniq` before the assignment: the
\* fields of the first occurrence are kept.
RECURSIVE parse_list_page_keep_first(_)
parse_list_page_keep_first(raw) ==
    IF raw = Empty THEN Empty
    ELSE LET init == parse_list_page_keep_first(SubSeq(raw, 1, Len(raw) - 1))
             it   == raw[Len(raw)]
         IN  IF \E i \in 1..Len(init) : init[i].url = it.url
             THEN init
             ELSE Append(init, it)

\* parse_list_page, lines 101-105: uniq[it.url] = it for every item in
\* order, then list(uniq.values()): one entry per URL, placed where the URL
\* first occurred, holding the fields of its last occurrence.
RECURSIVE parse_list_page(_)
parse_list_page(raw) ==
    IF raw = Empty THEN Empty
    ELSE LET init == parse_list_page(SubSeq(raw, 1, Len(raw) - 1))
             it   == raw[Len(raw)]
         IN  IF \E i \in 1..Len(init) : init[i].url = it.url
             THEN [i \in 1..Len(init) |->
                      IF init[i].url = it.url THEN it ELSE init[i]]
             ELSE Append(init, it)

UrlSet(items) == {items[i].url : i \in 1..Len(items)}

\* What parse_article_page can return for date, unit and title: no label
\* found (Empty), or fields of which the title is none of the listing's.
Articles ==
    { [date |-> Empty, unit |-> Empty, title |-> Empty],
      [date |-> <<"1">>, unit |-> <<"U">>, title |-> <<"B", "_">>] }

\* main, lines 344-348: article fields first, listing fields as fall-back.
Reconcile(art, item) ==
    [date  |-> IF art.date # Empty THEN art.date ELSE item.date,
     unit  |-> IF art.unit # Empty THEN art.unit ELSE item.unit,
     title |-> IF art.title # Empty THEN art.title ELSE item.title]

\* ------------------------------------------------- discover_pagination_mode
page_params == <<"page", "pageIndex", "pageNo", "pageNum", "p", "pg">>
offset_params == <<"start", "offset", "from", "begin">>

\* The fixed candidate list: every page parameter once, then every offset
\* parameter twice (zero-based, one-based).
NumProbes == Len(page_params) + 2 * Len(offset_params)

\* page_size = max(1, len(first_page_items))
PageSize(first_items) == IF Len(first_items) > 1 THEN Len(first_items) ELSE 1

IsPageProbe(k) == k <= Len(page_params)
ProbeParam(k) ==
    IF IsPageProbe(k) THEN page_params[k]
    ELSE offset_params[(k - Len(page_params) + 1) \div 2]
\* for one_based in (False, True)
ProbeOneBased(k) == ~IsPageProbe(k) /\ (k - Len(page_params)) % 2 = 0
ProbeValue(k, first_items) ==
    IF IsPageProbe(k) THEN <<"2">>
    ELSE Str(IF ProbeOneBased(k) THEN PageSize(first_items) + 1
                                 ELSE PageSize(first_items))
\* test_url = set_query_param(base_url, p, ...)
ProbeUrl(k, first_items) ==
    set_query_param(LIST_URL, ProbeParam(k), ProbeValue(k, first_items))

\* ProbeSucceeds without the comparison of the URL sets.
ProbeSucceedsAnyPage(probe_items, first_items) == probe_items # Empty

\* if items and urls != first_urls
ProbeSucceeds(probe_items, first_items) ==
    probe_items # Empty /\ UrlSet(probe_items) # UrlSet(first_items)

\* return ("page", p, 0, False)  /  return ("offset", p, page_size, one_based)
ProbeScheme(k, first_items) ==
    IF IsPageProbe(k)
    THEN [mode |-> "page", param |-> ProbeParam(k), step |-> 0, one_based |-> FALSE]
    ELSE [mode |-> "offset", param |-> ProbeParam(k),
          step |-> PageSize(first_items), one_based |-> ProbeOneBased(k)]

\* ProbesExhausted one candidate early.
ProbesExhaustedEarly(k) == k >= NumProbes - 1

\* The probe loops are over: the last candidate has been tried.
ProbesExhausted(k) == k >= NumProbes

NoScheme == [mode |-> "none", param |-> "", step |-> 0, one_based |-> FALSE]

\* ---------------------------------------------------------- iter_list_pages
\* lines 286-292: the URL of page page_no under the discovered scheme.
PageUrl(sch, page_no) ==
    IF sch.mode = "page"
    THEN set_query_param(LIST_URL, sch.param, Str(page_no))
    ELSE LET offset == (page_no - 1) * sch.step
         IN  set_query_param(LIST_URL, sch.param,
                             Str(IF sch.one_based THEN offset + 1 ELSE offset))

\* CapReached one page late.
CapReachedLate(max_pages, page_no) == max_pages # 0 /\ page_no > max_pages + 1

\* if max_pages and page_no > max_pages: return
CapReached(max_pages, page_no) == max_pages # 0 /\ page_no > max_pages

\* EndOfListing that never sees the end.
EndOfListingNever(page_items) == FALSE

\* if not items: return
EndOfListing(page_items) == page_items = Empty

\* SinglePageOnly that never holds: a cap of one is treated as any other cap.
SinglePageOnlyNever(max_pages) == FALSE

\* if max_pages == 1: return   (before discovery)
SinglePageOnly(max_pages) == max_pages = 1

\* ------------------------------------------------------------------- state
VARIABLES
    storage,      \* names of the files present in out_dir
    site,         \* the listing: raw page served for each URL requested so far
    arts,         \* the articles: fields parsed from each article fetched so far
    failKind,     \* how the site answers a parameter it does not understand
    maxPages,     \* args.max_pages
    run,          \* number of the current run of main
    pc,           \* "start" | "items" | "probe" | "page" | "done" | "halted" | "error"
    err,          \* which error ended the run ("" = none)
    pageNo,       \* page_no of iter_list_pages
    pageUrl,      \* URL of the page last requested by iter_list_pages
    items,        \* records of the page main is iterating
    idx,          \* position of main's inner loop in items (from 1)
    items1,       \* first page's records, kept for discovery
    probeK,       \* position in the candidate list (from 1)
    scheme,       \* (mode, param, step, offset_one_based)
    seen,         \* total_seen
    saved,        \* total_saved
    failed,       \* items whose try block raised in this run
    fetches,      \* fetch_html calls made by iter_list_pages and discovery
    requests,     \* all fetch_html calls of the run
    probeLog,     \* URLs probed by discovery in this run, in order
    lastReq,      \* the last request/sleep event of the run was a request
    b2b,          \* a request was issued right after another one
    startStorage, \* storage as it was when the run started
    prevClean,    \* the previous run persisted every item it listed
    skipped,      \* URLs of items that failed and were not saved since
    pure          \* input and result of a parser applied on its own

ctl  == <<pc, err, pageNo, pageUrl, items, idx, items1, probeK, scheme>>
cnt  == <<seen, saved, failed, fetches, requests, probeLog, lastReq, b2b>>
conf0 == <<maxPages, run, startStorage, prevClean, pure>>
conf == <<conf0, skipped>>
vars == <<storage, site, arts, failKind, ctl, cnt, conf>>
crawl == <<storage, site, arts, failKind, ctl, cnt, maxPages, run, startStorage,
           prevClean, skipped>>

FailKinds == {"empty", "same", "mixed"}

\* Files that may pre-date the first run.
InitPaths == {target_path(it.unit, it.date, it.title) : it \in NewsItems}

\* No parser is applied on its own during a crawl.
NoPure == [stage |-> "none"]

\* The state of main before its first request.
InitCrawl ==
    /\ skipped = {}
    /\ storage \in SUBSET InitPaths
    /\ startStorage = storage
    /\ site = << >>
    /\ arts = << >>
    /\ failKind = "unset"
    /\ maxPages \in 0..MaxCap
    /\ run = 1
    /\ pc = "start" /\ err = ""
    /\ pageNo = 0 /\ pageUrl = LIST_URL
    /\ items = Empty /\ idx = 1 /\ items1 = Empty
    /\ probeK = 0 /\ scheme = NoScheme
    /\ seen = 0 /\ saved = 0 /\ failed = 0 /\ fetches = 0 /\ requests = 0
    /\ probeLog = Empty
    /\ lastReq = FALSE /\ b2b = FALSE
    /\ prevClean = FALSE

Init == InitCrawl /\ pure = NoPure

\* ------------------------------------------------------------ the site
\* What the site serves for url: what it served before, else one of choices.
Served(url, choices) == IF url \in DOMAIN site THEN {site[url]} ELSE choices
Memo(url, raw) == [u \in DOMAIN site \cup {url} |-> IF u = url THEN raw ELSE site[u]]

\* The page served for a pagination parameter the site does not understand:
\* nothing, the first page again, or the first page for the page parameters
\* and nothing for the offset parameters.
IgnoredParamPage(fk, k) ==
    CASE fk = "empty" -> Empty
      [] fk = "same"  -> site[LIST_URL]
      [] OTHER        -> IF IsPageProbe(k) THEN site[LIST_URL] ELSE Empty

\* The site's kind is fixed by the first parameter it ignores.
KindChoices == IF failKind = "unset" THEN FailKinds ELSE {failKind}

\* A probe is answered as before if its URL was served before; else with the
\* ignored-parameter page, or with any page holding another URL set than the
\* first page.  Each answer comes with the site's kind after it.
ProbeAnswers(k) ==
    IF ProbeUrl(k, items1) \in DOMAIN site
    THEN {<<failKind, site[ProbeUrl(k, items1)]>>}
    ELSE {<<fk, IgnoredParamPage(fk, k)>> : fk \in KindChoices} \cup
         {<<failKind, r>> : r \in
             {q \in RawPages : parse_list_page(q) # Empty
                               /\ UrlSet(parse_list_page(q)) # UrlSet(items1)}}

\* The listing is finite: pages beyond MaxPageNo are empty.
PageChoices(page_no) == IF page_no > MaxPageNo THEN {Empty} ELSE RawPages

\* The article page of url parses as it did before, else to one of Articles.
ArticleAt(url) == IF url \in DOMAIN arts THEN {arts[url]} ELSE Articles

\* fetch_html exhausted its retries: RuntimeError, not caught at listing level.
ListingFetchFails ==
    /\ pc' = "error" /\ err' = "fetch"
    /\ requests' = requests + 1 /\ fetches' = fetches + 1
    /\ lastReq' = TRUE /\ b2b' = (b2b \/ lastReq)
    /\ UNCHANGED <<storage, site, arts, failKind, items, idx, items1, probeK,
                   scheme, seen, saved, failed, conf>>

\* ------------------------------------------------------------ iter_list_pages
\* lines 271-274: page 0 is the base URL; its records are yielded to main.
IterFirstPage ==
    /\ pc = "start"
    /\ \/ ListingFetchFails /\ UNCHANGED <<pageNo, pageUrl, probeLog>>
       \/ \E raw \in Served(LIST_URL, RawPages) :
            /\ site' = Memo(LIST_URL, raw)
            /\ items1' = parse_list_page(raw)
            /\ items' = parse_list_page(raw)
            /\ idx' = 1
            /\ pc' = "items"
            /\ requests' = requests + 1 /\ fetches' = fetches + 1
            /\ lastReq' = TRUE /\ b2b' = (b2b \/ lastReq)
            /\ UNCHANGED <<storage, arts, failKind, err, pageNo, pageUrl, probeK,
                           scheme, seen, saved, failed, probeLog, conf>>

\* --------------------------------------------------------------------- main
\* HaltOnExisting with `break` in place of `return`: only the inner loop ends.
BreakOnExisting ==
    /\ idx' = Len(items) + 1
    /\ seen' = seen + 1
    /\ UNCHANGED <<storage, site, arts, failKind, pc, err, pageNo, pageUrl, items,
                   items1, probeK, scheme, saved, failed, fetches, requests,
                   probeLog, lastReq, b2b, conf>>

\* lines 330-335: the pre-fetch target exists: return from main.
HaltOnExisting ==
    /\ pc' = "halted"
    /\ seen' = seen + 1
    /\ UNCHANGED <<storage, site, arts, failKind, err, pageNo, pageUrl, items, idx,
                   items1, probeK, scheme, saved, failed, fetches, requests,
                   probeLog, lastReq, b2b, conf>>

\* lines 340-359: the article is fetched, parsed, reconciled with the listing
\* fields and written to the recomputed path; then the delay.
ItemSaved(item, art) ==
    LET r == Reconcile(art, item)
    IN  /\ storage' = storage \cup {target_path(r.unit, r.date, r.title)}
        /\ saved' = saved + 1
        /\ seen' = seen + 1
        /\ idx' = idx + 1
        /\ requests' = requests + 1
        /\ lastReq' = FALSE /\ b2b' = (b2b \/ lastReq)
        /\ arts' = [u \in DOMAIN arts \cup {item.url} |->
                        IF u = item.url THEN art ELSE arts[u]]
        /\ skipped' = skipped \ {item.url}
        /\ UNCHANGED <<site, failKind, pc, err, pageNo, pageUrl, items, items1,
                       probeK, scheme, failed, fetches, probeLog, conf0>>

\* ItemFailed without the except clause: the exception ends the run.
ItemFailedRaises ==
    /\ pc' = "error" /\ err' = "fetch"
    /\ failed' = failed + 1
    /\ seen' = seen + 1
    /\ requests' = requests + 1
    /\ lastReq' = TRUE /\ b2b' = (b2b \/ lastReq)
    /\ skipped' = skipped \cup {items[idx].url}
    /\ UNCHANGED <<storage, site, arts, failKind, pageNo, pageUrl, items, idx,
                   items1, probeK, scheme, saved, fetches, probeLog, conf0>>

\* lines 361-362: an exception of the try block (fetch_html, the parse or
\* atomic_write raised) is printed and the loop goes on; no delay.
ItemFailed ==
    /\ failed' = failed + 1
    /\ seen' = seen + 1
    /\ idx' = idx + 1
    /\ requests' = requests + 1
    /\ lastReq' = TRUE /\ b2b' = (b2b \/ lastReq)
    /\ skipped' = skipped \cup {items[idx].url}
    /\ UNCHANGED <<storage, site, arts, failKind, pc, err, pageNo, pageUrl, items,
                   items1, probeK, scheme, saved, fetches, probeLog, conf0>>

\* os.path.exists(out_path)
Exists(path) == path \in storage

\* lines 325-362: one pass of main's inner loop.
MainItem ==
    /\ pc = "items" /\ idx <= Len(items)
    /\ LET item == items[idx]
       IN  IF Exists(target_path(item.unit, item.date, item.title))
           THEN HaltOnExisting
           ELSE \/ \E art \in ArticleAt(item.url) : ItemSaved(item, art)
                \/ ItemFailed

\* ---------------------------------------------- iter_list_pages, resumed
\* main asks for the next page.  After page 0 (lines 276-279, 222-223): a cap
\* of one ends the sequence, an empty first page makes discovery raise, else
\* probing starts.  After a later page (line 303): the delay.
IterResume ==
    /\ pc = "items" /\ idx > Len(items)
    /\ IF pageNo = 0
       THEN /\ IF SinglePageOnly(maxPages)
               THEN pc' = "done" /\ err' = "" /\ probeK' = probeK
               ELSE IF items1 = Empty
                    THEN pc' = "error" /\ err' = "empty_first" /\ probeK' = probeK
                    ELSE pc' = "probe" /\ err' = "" /\ probeK' = 1
            /\ UNCHANGED lastReq
       ELSE /\ pc' = "page" /\ lastReq' = FALSE
            /\ UNCHANGED <<err, probeK>>
    /\ UNCHANGED <<storage, site, arts, failKind, pageNo, pageUrl, items, idx,
                   items1, scheme, seen, saved, failed, fetches, requests,
                   probeLog, b2b, conf>>

\* lines 231-258: one pass of the probe loops.
DiscoverProbe ==
    /\ pc = "probe"
    /\ probeLog' = Append(probeLog, ProbeUrl(probeK, items1))
    /\ \/ ListingFetchFails /\ UNCHANGED <<pageNo, pageUrl>>
       \/ \E ans \in ProbeAnswers(probeK) :
          LET raw == ans[2] IN
            /\ failKind' = ans[1]
            /\ site' = Memo(ProbeUrl(probeK, items1), raw)
            /\ requests' = requests + 1 /\ fetches' = fetches + 1
            /\ b2b' = (b2b \/ lastReq)
            /\ IF ProbeSucceeds(parse_list_page(raw), items1)
               THEN /\ scheme' = ProbeScheme(probeK, items1)
                    /\ pc' = "page" /\ err' = ""
                    /\ probeK' = probeK
                    /\ lastReq' = TRUE
               ELSE /\ lastReq' = FALSE
                    /\ scheme' = scheme
                    /\ IF ProbesExhausted(probeK)
                       THEN pc' = "error" /\ err' = "exhausted" /\ probeK' = probeK
                       ELSE pc' = "probe" /\ err' = "" /\ probeK' = probeK + 1
            /\ UNCHANGED <<storage, arts, pageNo, pageUrl, items, idx, items1,
                           seen, saved, failed, conf>>

\* lines 282-301: the next page is requested unless the cap is reached; an
\* empty page ends the sequence, any other page is yielded to main.
IterNextPage ==
    /\ pc = "page"
    /\ pageNo' = pageNo + 1
    /\ IF CapReached(maxPages, pageNo + 1)
       THEN /\ pc' = "done"
            /\ UNCHANGED <<storage, site, arts, failKind, err, pageUrl, items, idx,
                           items1, probeK, scheme, cnt, conf>>
       ELSE /\ pageUrl' = PageUrl(scheme, pageNo + 1)
            /\ \/ ListingFetchFails /\ UNCHANGED probeLog
               \/ \E raw \in Served(PageUrl(scheme, pageNo + 1),
                                   PageChoices(pageNo + 1)) :
                    /\ site' = Memo(PageUrl(scheme, pageNo + 1), raw)
                    /\ requests' = requests + 1 /\ fetches' = fetches + 1
                    /\ lastReq' = TRUE /\ b2b' = (b2b \/ lastReq)
                    /\ IF EndOfListing(parse_list_page(raw))
                       THEN pc' = "done" /\ UNCHANGED <<items, idx>>
                       ELSE /\ pc' = "items"
                            /\ items' = parse_list_page(raw)
                            /\ idx' = 1
                    /\ UNCHANGED <<storage, arts, failKind, err, items1, probeK,
                                   scheme, seen, saved, failed, probeLog, conf>>

\* ----------------------------------------------------------- the next run
\* main is started again on the same output directory and the same site.
NewRun ==
    /\ pc \in {"done", "halted", "error"}
    /\ run < MaxRuns
    /\ run' = run + 1
    /\ prevClean' = (/\ pc = "done" \/ (pc = "error" /\ err # "fetch")
                     /\ failed = 0 /\ saved >= 1 /\ saved = seen)
    /\ startStorage' = storage
    /\ pc' = "start" /\ err' = ""
    /\ pageNo' = 0 /\ pageUrl' = LIST_URL
    /\ items' = Empty /\ idx' = 1 /\ items1' = Empty
    /\ probeK' = 0 /\ scheme' = NoScheme
    /\ seen' = 0 /\ saved' = 0 /\ failed' = 0 /\ fetches' = 0 /\ requests' = 0
    /\ probeLog' = Empty
    /\ lastReq' = FALSE /\ b2b' = FALSE
    /\ UNCHANGED <<storage, site, arts, failKind, maxPages, skipped, pure>>

Next ==
    \/ IterFirstPage
    \/ MainItem
    \/ IterResume
    \/ DiscoverProbe
    \/ IterNextPage

\* One run of main, from any output directory.
Spec == Init /\ [][Next]_vars

\* Consecutive runs of main on one output directory that starts empty.
InitRuns == Init /\ storage = {}

NextRuns ==
    \/ IterFirstPage
    \/ MainItem
    \/ IterResume
    \/ DiscoverProbe
    \/ IterNextPage
    \/ NewRun

SpecRuns == InitRuns /\ [][NextRuns]_vars

\* ------------------------------------------- parse_list_page on its own
\* Most anchors of one listing page.
MaxAnchors == 3

SeqsUpTo(S, n) == UNION {[1..k -> S] : k \in 0..n}

\* lines 93-99: the records appended for the accepted anchors; the same URL
\* can come with two titles.
ListCandidates ==
    {[url |-> u, date |-> <<"1">>, unit |-> <<"U">>, title |-> <<t>>] :
        u \in {1, 2}, t \in {"A", "B"}}

InitList ==
    /\ InitCrawl /\ storage = {} /\ maxPages = 0
    /\ pure \in {[stage |-> "list", raw |-> r] :
                    r \in SeqsUpTo(ListCandidates, MaxAnchors)}

\* lines 101-105 applied to the records of one page.
ParseList ==
    /\ pure.stage = "list"
    /\ pure' = [stage |-> "listed", raw |-> pure.raw,
                out |-> parse_list_page(pure.raw)]
    /\ UNCHANGED crawl

NextList == ParseList

SpecList == InitList /\ [][NextList]_vars

\* ------------------------------------------------------- parse_article_page
\* A line of text is a sequence of tokens: a field label, the separator that
\* follows a label (the full-width colon, written ":" here), or other text.
NewsTypeLabel == <<"news_type">>
BizTypeLabel  == <<"biz_type">>
TypeLabel     == <<"type">>
DateLabel     == <<"date">>
UnitLabel     == <<"unit">>
Sep == ":"

\* the list of line 141
FieldLabels == {NewsTypeLabel, BizTypeLabel, TypeLabel, DateLabel, UnitLabel}

\* the line extract_main_text_block looks for (line 112)
Banner == <<"banner">>

STOP_MARKERS == {<<"back">>, <<"top">>, <<"updated">>, <<"views">>,
                 <<"hits">>, <<"share">>}

\* block[:80], block[:120], range(i + 1, min(i + 10, ...)), block[10:]
FieldWindow == 80
TitleWindow == 120
TitleSpan   == 10
BodyOffset  == 10

StartsWith(ln, prefix) ==
    Len(ln) >= Len(prefix) /\ SubSeq(ln, 1, Len(prefix)) = prefix

Contains(ln, tok) == \E i \in 1..Len(ln) : ln[i] = tok

MinOf(S) == CHOOSE i \in S : \A j \in S : i <= j
MaxOf(S) == CHOOSE i \in S : \A j \in S : i >= j
Lesser(a, b) == IF a <= b THEN a ELSE b

\* lines 112-114: the lines from the last banner line on, all lines if none.
extract_main_text_block(lines) ==
    LET idxs == {i \in 1..Len(lines) : lines[i] = Banner}
    IN  IF idxs = {} THEN lines
        ELSE SubSeq(lines, MaxOf(idxs), Len(lines))

\* ln.split(sep, 1)[-1]: what follows the first separator, the whole line if
\* it holds none.
AfterSep(ln) ==
    IF Contains(ln, Sep)
    THEN SubSeq(ln, MinOf({i \in 1..Len(ln) : ln[i] = Sep}) + 1, Len(ln))
    ELSE ln

\* lines 121-125; None is Empty.
find_value(block, prefix) ==
    LET hits == {i \in 1..Lesser(FieldWindow, Len(block)) :
                    StartsWith(block[i], prefix)}
    IN  IF hits = {} THEN Empty ELSE AfterSep(block[MinOf(hits)])

\* lines 140-143: the candidate holds the separator and starts with a label.
IsFieldLine(cand) ==
    Contains(cand, Sep) /\ \E p \in FieldLabels : StartsWith(cand, p)

\* lines 134-146 with the first line after the unit line taken as it is.
title_index_no_skip(block) ==
    LET units == {i \in 1..Lesser(TitleWindow, Len(block)) :
                     StartsWith(block[i], UnitLabel \o <<Sep>>)}
    IN  IF units = {} \/ MinOf(units) = Len(block) THEN 0
        ELSE MinOf(units) + 1

\* lines 134-146: the position in block (from 1) of the line taken as title,
\* 0 if none.  With i the position from 0 of the first unit line among the
\* first 120 lines, j runs over i + 1 .. min(i + 10, len(block)) - 1; from 1
\* that is u + 1 .. min(u + 9, len(block)) with u = i + 1.
title_index(block) ==
    LET units == {i \in 1..Lesser(TitleWindow, Len(block)) :
                     StartsWith(block[i], UnitLabel \o <<Sep>>)}
    IN  IF units = {} THEN 0
        ELSE LET u == MinOf(units)
                 cands == {j \in (u + 1)..Lesser(u + TitleSpan - 1, Len(block)) :
                              ~IsFieldLine(block[j])}
             IN  IF cands = {} THEN 0 ELSE MinOf(cands)

\* title of lines 133-146; None is Empty.
find_title(block) ==
    IF title_index(block) = 0 THEN Empty ELSE block[title_index(block)]

\* lines 149-154: the lines after block.index(title), else block[10:].
body_region(block, title) ==
    LET occ == {i \in 1..Len(block) : block[i] = title}
    IN  IF title # Empty /\ occ # {}
        THEN SubSeq(block, MinOf(occ) + 1, Len(block))
        ELSE SubSeq(block, BodyOffset + 1, Len(block))

\* lines 157-161 with `continue` in place of `break`.
RECURSIVE cleaned_skip_markers(_)
cleaned_skip_markers(body_lines) ==
    IF body_lines = Empty THEN Empty
    ELSE IF Head(body_lines) \in STOP_MARKERS
         THEN cleaned_skip_markers(Tail(body_lines))
         ELSE <<Head(body_lines)>> \o cleaned_skip_markers(Tail(body_lines))

\* lines 157-161: lines are appended until the first stop marker.
RECURSIVE cleaned(_)
cleaned(body_lines) ==
    IF body_lines = Empty \/ Head(body_lines) \in STOP_MARKERS THEN Empty
    ELSE <<Head(body_lines)>> \o cleaned(Tail(body_lines))

\* lines 117-171; block and region are kept beside the returned fields.
parse_article_page(lines) ==
    LET block == extract_main_text_block(lines)
        title == find_title(block)
        biz   == find_value(block, BizTypeLabel)
    IN  [block      |-> block,
         news_type  |-> find_value(block, NewsTypeLabel),
         biz_type   |-> IF biz # Empty THEN biz ELSE find_value(block, TypeLabel),
         date       |-> find_value(block, DateLabel),
         unit       |-> find_value(block, UnitLabel),
         title      |-> title,
         region     |-> body_region(block, title),
         body_lines |-> cleaned(body_region(block, title))]

\* Most lines after the field lines of an article.
MaxTail == 3

Fill(n) == [i \in 1..n |-> <<"x">>]
UnitLine == UnitLabel \o <<Sep, "U">>
DateLine == DateLabel \o <<Sep, "1">>

\* Lines that can follow the field lines: text, a line that starts with a
\* label but holds no separator, a field line, a stop marker.
TailLines == {<<"x">>, <<"y">>, TypeLabel \o <<"w">>, DateLine, <<"back">>}

\* The text lines of an article page: lines before the banner or none, text
\* lines, the unit line with field lines after it or no unit line, and a tail.
ArticleLines ==
    {h \o Fill(n) \o m \o t :
        h \in {Empty, <<<<"x">>, Banner>>},
        n \in {0, 1, BodyOffset, TitleWindow - 1, TitleWindow},
        m \in {Empty} \cup
              {<<UnitLine>> \o [i \in 1..k |-> DateLine] :
                  k \in {0, 1, TitleSpan - 2, TitleSpan - 1}},
        t \in SeqsUpTo(TailLines, MaxTail)}

InitArticle ==
    /\ InitCrawl /\ storage = {} /\ maxPages = 0
    /\ pure \in {[stage |-> "article", lines |-> l] : l \in ArticleLines}

ParseArticle ==
    /\ pure.stage = "article"
    /\ pure' = [stage |-> "parsed", lines |-> pure.lines,
                out |-> parse_article_page(pure.lines)]
    /\ UNCHANGED crawl

NextArticle == ParseArticle

SpecArticle == InitArticle /\ [][NextArticle]_vars

\* ===================================================================== claims
Terminal == pc \in {"done", "halted", "error"}

\* The page a URL was answered with parses to these records.
RecordsAt(url) == parse_list_page(site[url])

\* Every probe of the run was answered.
ProbesAnswered == \A i \in 1..Len(probeLog) : probeLog[i] \in DOMAIN site

\* ---------------------------------------------------------------------- C1
\* C1: when the pre-fetch target of the item main is at exists, the next step
\* ends the run and does nothing else; once the run has halted no request and
\* no write follows in it; and a run that halted with no failed item has
\* written one document for every item before the one it halted on.
C1_HaltStopsRun ==
    /\ [][ (pc = "items" /\ idx <= Len(items)
            /\ target_path(items[idx].unit, items[idx].date, items[idx].title)
                 \in storage)
           => (pc' = "halted" /\ storage' = storage /\ requests' = requests
               /\ fetches' = fetches /\ saved' = saved) ]_vars
    /\ [][ pc = "halted"
           => (run' # run \/ (storage' = storage /\ requests' = requests)) ]_vars
    /\ [](pc = "halted" /\ failed = 0 => saved = seen - 1)

\* A run that halted after saving, with an item of the page still unprocessed.
C1_Witness ==
    pc = "halted" /\ failed = 0 /\ saved >= 1 /\ idx < Len(items)

\* ---------------------------------------------------------------------- C2
\* C2: from an empty output directory, with a non-empty first page and every
\* probe answered with an empty page, the run ends normally with one document
\* per first-page item.
C2_SinglePageCompletes ==
    (/\ startStorage = {} /\ items1 # Empty /\ failed = 0
     /\ probeLog # Empty /\ pc # "probe" /\ err # "fetch"
     /\ ProbesAnswered
     /\ \A i \in 1..Len(probeLog) : RecordsAt(probeLog[i]) = Empty)
    => (pc = "done" /\ err = "" /\ saved = Len(items1))

\* ---------------------------------------------------------------------- C3
\* The fixed candidate list for a first page of n records.
C3_Candidates(n) ==
    << <<"page", <<"2">> >>, <<"pageIndex", <<"2">> >>, <<"pageNo", <<"2">> >>,
       <<"pageNum", <<"2">> >>, <<"p", <<"2">> >>, <<"pg", <<"2">> >>,
       <<"start", Str(n)>>, <<"start", Str(n + 1)>>,
       <<"offset", Str(n)>>, <<"offset", Str(n + 1)>>,
       <<"from", Str(n)>>, <<"from", Str(n + 1)>>,
       <<"begin", Str(n)>>, <<"begin", Str(n + 1)>> >>

C3_Differs(recs) == recs # Empty /\ UrlSet(recs) # UrlSet(items1)

\* C3: the probes issued are a prefix of the fixed candidate list, in order;
\* every probe before the last one issued failed; and once a scheme is
\* returned it is the scheme of the last probe issued, which is the first one
\* whose page is non-empty with another URL set than the first page.
C3_FirstSuccessWins ==
    LET n == Len(items1)
        k == Len(probeLog)
        c == C3_Candidates(n)
    IN  /\ k <= 14
        /\ \A i \in 1..k :
              probeLog[i] = set_query_param(LIST_URL, c[i][1], c[i][2])
        /\ \A i \in 1..(k - 1) :
              probeLog[i] \in DOMAIN site /\ ~C3_Differs(RecordsAt(probeLog[i]))
        /\ scheme.mode # "none" =>
              /\ k >= 1 /\ pc # "probe"
              /\ C3_Differs(RecordsAt(probeLog[k]))
              /\ scheme.param = c[k][1]
              /\ IF k <= 6
                 THEN scheme.mode = "page"
                 ELSE /\ scheme.mode = "offset"
                      /\ scheme.step = n
                      /\ scheme.one_based = (c[k][2] = Str(n + 1))

\* Discovery succeeded on a one-based offset candidate after earlier failures,
\* and the generator went on to request pages.
C3_Witness ==
    scheme.mode = "offset" /\ scheme.one_based /\ Len(probeLog) >= 8 /\ pageNo >= 1

\* ---------------------------------------------------------------------- C4
\* C4: when every probe is answered with a page of the first page's URL set,
\* discovery ends with the exhaustion error after the 14 candidates, each
\* probed once, 15 fetches in all; the run ends there, on page 0, with no
\* document beyond the first page's items.
C4_ExhaustionFails ==
    (/\ probeLog # Empty /\ pc # "probe" /\ err # "fetch"
     /\ ProbesAnswered
     /\ \A i \in 1..Len(probeLog) :
           UrlSet(RecordsAt(probeLog[i])) = UrlSet(items1))
    => /\ pc = "error" /\ err = "exhausted"
       /\ Len(probeLog) = 14
       /\ \A i, j \in 1..Len(probeLog) : i # j => probeLog[i] # probeLog[j]
       /\ fetches = 15
       /\ pageNo = 0 /\ scheme = NoScheme
       /\ saved + failed <= Len(items1)

C4_Witness ==
    /\ err = "exhausted" /\ saved = 2
    /\ ProbesAnswered
    /\ \A i \in 1..Len(probeLog) :
          UrlSet(RecordsAt(probeLog[i])) = UrlSet(items1)

\* ---------------------------------------------------------------------- C5
\* C5 as stated: with a cap N > 0 the generator makes at most N + 1 fetches.
C5_AtMostCapPlusOne == maxPages > 0 => fetches <= maxPages + 1

\* C5 amended: with a cap N > 0 the generator makes at most N + 1 listing
\* fetches besides the probes, of which there are at most 14, and none when
\* N = 1: at most N + 15 fetches, and exactly one when N = 1.
C5_AtMostCapPlusProbes ==
    maxPages > 0 =>
        /\ fetches <= maxPages + 1 + Len(probeLog)
        /\ Len(probeLog) <= 14
        /\ maxPages = 1 => (probeLog = Empty /\ fetches <= 1)

\* The bound is met: a cap of 2, 14 probes, and 3 listing fetches.
C5_Witness == maxPages = 2 /\ fetches = 17 /\ Terminal

\* ---------------------------------------------------------------------- C6
\* C6 as stated, for page 0: an empty first page does not end in an error.
C6_EmptyPageNeverErrs ==
    (pageNo = 0 /\ fetches >= 1 /\ err # "fetch" /\ items1 = Empty)
    => pc # "error"

\* C6 amended: a page of index >= 1 that parses to no record ends the run
\* normally; an empty page 0 ends it normally under a cap of 1 and with the
\* discovery error otherwise, with no probe and no further fetch; and a run
\* that has ended issues no request.
C6_EmptyPageEnds ==
    /\ []((/\ pageNo >= 1 /\ pageUrl # LIST_URL /\ err # "fetch"
           /\ pageUrl \in DOMAIN site /\ RecordsAt(pageUrl) = Empty)
          => (pc = "done" /\ err = ""))
    /\ []((/\ pageNo = 0 /\ fetches >= 1 /\ err # "fetch" /\ items1 = Empty
           /\ ~(pc = "items" /\ idx = 1))
          => /\ fetches = 1 /\ requests = 1 /\ probeLog = Empty
             /\ IF maxPages = 1 THEN pc = "done" /\ err = ""
                                ELSE pc = "error" /\ err = "empty_first")
    /\ [][ (pc = "done" \/ pc = "error")
           => (run' # run \/ requests' = requests) ]_vars

\* The listing ran off its end on a later page, after documents were saved.
C6_Witness ==
    /\ pc = "done" /\ pageNo >= 2 /\ saved >= 1
    /\ pageUrl \in DOMAIN site /\ RecordsAt(pageUrl) = Empty

\* ---------------------------------------------------------------------- C7
\* C7: in page mode the page of index N >= 1 is requested with the parameter
\* set to N + 1.
C7_PageIndexOneBased ==
    (scheme.mode = "page" /\ pageNo >= 1 /\ pc = "items")
    => pageUrl = set_query_param(LIST_URL, scheme.param, Str(pageNo + 1))

\* ---------------------------------------------------------------------- C8
\* C8: a run that follows a run which persisted every item it listed, with no
\* failure, writes nothing.
C8_SecondRunWritesNothing == (run >= 2 /\ prevClean) => saved = 0

\* ---------------------------------------------------------------------- C9
\* C9: a step in which an item fails writes nothing, leaves the run neither
\* halted nor in error, and leaves main at the next item of the same page.
C9_FailureSkipsItem ==
    [][ failed' = failed + 1
        => /\ storage' = storage /\ saved' = saved
           /\ pc = "items" /\ pc' = "items" /\ err' = ""
           /\ idx' = idx + 1 /\ items' = items
           /\ pageNo' = pageNo /\ scheme' = scheme ]_vars

\* After a failed item the run saved a document and reached a later page.
C9_Witness == failed >= 1 /\ saved >= 1 /\ pageNo >= 1 /\ pc = "items"

\* --------------------------------------------------------------------- C10
\* C10: no request is issued right after another request, without a delay
\* between them.
C10_DelayBetweenRequests == ~b2b

\* --------------------------------------------------------------------- C11
\* C11: the first page of a run is requested from the base URL itself, as the
\* first listing request of the run; a probe is issued only when page 0 has
\* been yielded, main has gone through all its items and asks for the next
\* page, the cap is not one and no scheme has been returned yet; once a scheme
\* is returned the run issues no further probe and keeps the scheme; a run
\* with a cap of one, and a run that halted on page 0, has issued no probe.
C11_DiscoveryLazy ==
    /\ [][ (pc = "start" /\ pc' = "items")
           => (/\ LIST_URL \in DOMAIN site'
               /\ items' = parse_list_page(site'[LIST_URL])
               /\ pageNo' = 0 /\ fetches' = 1 /\ probeLog' = Empty) ]_vars
    /\ [][ (probeLog' # probeLog /\ run' = run)
           => (/\ pc = "probe" /\ pageNo = 0 /\ fetches >= 1
               /\ items = items1 /\ idx > Len(items1) /\ seen = Len(items1)
               /\ maxPages # 1 /\ scheme = NoScheme) ]_vars
    /\ [][ (scheme # NoScheme /\ run' = run)
           => (scheme' = scheme /\ probeLog' = probeLog) ]_vars
    /\ [](maxPages = 1 => probeLog = Empty)
    /\ [](pc = "halted" /\ pageNo = 0 => probeLog = Empty)

\* Discovery has just returned a scheme, after main processed all of page 0.
C11_Witness ==
    /\ pc = "page" /\ pageNo = 0 /\ scheme # NoScheme
    /\ seen = Len(items1) /\ saved >= 1 /\ Len(probeLog) >= 2

\* --------------------------------------------------------------------- C12
FirstOcc(raw, u) ==
    CHOOSE i \in 1..Len(raw) :
        raw[i].url = u /\ \A j \in 1..(i - 1) : raw[j].url # u

LastOcc(raw, u) ==
    CHOOSE i \in 1..Len(raw) :
        raw[i].url = u /\ \A j \in (i + 1)..Len(raw) : raw[j].url # u

\* C12: the records returned for a page hold every URL of the accepted
\* candidates once and no other URL; they are ordered by the first occurrence
\* of their URLs; and each is the candidate of the last occurrence of its URL.
C12_OnePerUrlLastWins ==
    pure.stage = "listed" =>
        LET raw == pure.raw
            out == pure.out
        IN  /\ UrlSet(out) = UrlSet(raw)
            /\ \A i, j \in 1..Len(out) : i < j =>
                  /\ out[i].url # out[j].url
                  /\ FirstOcc(raw, out[i].url) < FirstOcc(raw, out[j].url)
            /\ \A i \in 1..Len(out) : out[i] = raw[LastOcc(raw, out[i].url)]

\* A URL occurs first and last with two titles, another URL in between.
C12_Witness ==
    /\ pure.stage = "listed" /\ Len(pure.raw) = 3 /\ Len(pure.out) = 2
    /\ pure.raw[1].url = pure.raw[3].url /\ pure.raw[1] # pure.raw[3]
    /\ pure.raw[2].url # pure.raw[1].url

\* --------------------------------------------------------------------- C13
\* C13: the body lines returned are the lines of the body region before its
\* first line equal to a stop marker, in order; all of the region if it holds
\* no stop marker.
C13_BodyStopsAtMarker ==
    pure.stage = "parsed" =>
        LET r == pure.out.region
            b == pure.out.body_lines
            marks == {i \in 1..Len(r) : r[i] \in STOP_MARKERS}
        IN  IF marks = {} THEN b = r
            ELSE /\ Len(b) < Len(r)
                 /\ r[Len(b) + 1] \in STOP_MARKERS
                 /\ \A i \in 1..Len(b) : b[i] = r[i] /\ b[i] \notin STOP_MARKERS

\* A stop marker inside the body region, with lines before and after it.
C13_Witness ==
    /\ pure.stage = "parsed"
    /\ Len(pure.out.body_lines) >= 1
    /\ Len(pure.out.region) >= Len(pure.out.body_lines) + 2
    /\ pure.out.region[Len(pure.out.region)] \notin STOP_MARKERS

\* --------------------------------------------------------------------- C14
\* C14: with a cap N > 0 at most N listing pages are yielded to main; pages
\* 0 .. pageNo have been yielded when main is at the items of page pageNo.
C14_AtMostCapPages ==
    (maxPages > 0 /\ pc = "items") => pageNo + 1 <= maxPages

\* --------------------------------------------------------------------- C15
\* The first unit line among the first 120 lines of block, 0 if none.
C15_UnitIndex(block) ==
    LET units == {i \in 1..Len(block) :
                     i <= TitleWindow /\ StartsWith(block[i], UnitLabel \o <<Sep>>)}
    IN  IF units = {} THEN 0 ELSE MinOf(units)

C15_StartsWithLabel(ln) == \E p \in FieldLabels : StartsWith(ln, p)

\* C15 as stated: the title is the first of the 10 lines after the unit line
\* that does not start with a field label; it is unset when there is no unit
\* line, and no title starts with a field label.
C15_TitleWithinTen ==
    pure.stage = "parsed" =>
        LET block == pure.out.block
            title == pure.out.title
            u == C15_UnitIndex(block)
        IN  /\ u = 0 => title = Empty
            /\ title # Empty => ~C15_StartsWithLabel(title)
            /\ u # 0 =>
                  \/ /\ title = Empty
                     /\ \A j \in (u + 1)..Len(block) :
                           j <= u + 10 => C15_StartsWithLabel(block[j])
                  \/ \E j \in (u + 1)..Len(block) :
                        /\ j <= u + 10 /\ title = block[j]
                        /\ ~C15_StartsWithLabel(block[j])
                        /\ \A k \in (u + 1)..(j - 1) :
                              C15_StartsWithLabel(block[k])

\* C15: the title is the first of the 9 lines after the first unit line of
\* the first 120 lines that is not a field line, a field line being one that
\* starts with a field label and holds the separator; it is unset when there
\* is no unit line or when all of these lines are field lines.
C15_TitleWithinNine ==
    pure.stage = "parsed" =>
        LET block == pure.out.block
            title == pure.out.title
            u == C15_UnitIndex(block)
        IN  /\ u = 0 => title = Empty
            /\ u # 0 =>
                  \/ /\ title = Empty
                     /\ \A j \in (u + 1)..Len(block) :
                           j <= u + 9 =>
                             (C15_StartsWithLabel(block[j]) /\ Contains(block[j], Sep))
                  \/ \E j \in (u + 1)..Len(block) :
                        /\ j <= u + 9 /\ title = block[j]
                        /\ ~(C15_StartsWithLabel(block[j]) /\ Contains(block[j], Sep))
                        /\ \A k \in (u + 1)..(j - 1) :
                              C15_StartsWithLabel(block[k]) /\ Contains(block[k], Sep)

\* A title found after field lines were passed over, the unit line not being
\* the first line of the block.
C15_Witness ==
    /\ pure.stage = "parsed" /\ pure.out.title # Empty
    /\ C15_UnitIndex(pure.out.block) >= 2
    /\ \E j \in 1..Len(pure.out.block) :
          /\ j >= C15_UnitIndex(pure.out.block) + 3
          /\ pure.out.block[j] = pure.out.title
          /\ \A k \in (C15_UnitIndex(pure.out.block) + 1)..(j - 1) :
                pure.out.block[k] = DateLine

\* --------------------------------------------------------------------- C16
\* C16: when a title was found the body region is what follows the line the
\* title was taken from; else it is what follows the first 10 lines of block.
C16_BodyAfterTitleLine ==
    pure.stage = "parsed" =>
        LET block == pure.out.block
            j == title_index(block)
        IN  pure.out.region =
                IF j # 0 THEN SubSeq(block, j + 1, Len(block))
                         ELSE SubSeq(block, BodyOffset + 1, Len(block))

\* --------------------------------------------------------------------- C17
\* C17: in both modes the URL requested for the page of index 1 is the URL of
\* the probe that succeeded, the last one issued.
C17_PageOneIsProbeUrl ==
    (pc = "items" /\ pageNo = 1 /\ scheme.mode # "none")
    => pageUrl = probeLog[Len(probeLog)]

\* --------------------------------------------------------------------- C18
\* C18: a run halts only on a document that was in the output directory when
\* the run started.
C18_HaltOnlyOnOlderDocument ==
    pc = "halted"
    => target_path(items[idx].unit, items[idx].date, items[idx].title)
         \in startStorage

\* --------------------------------------------------------------------- C19
\* C19: a later run in which nothing fails, and which ends without a listing
\* error, either writes a document or leaves no item skipped by an earlier
\* run without one; a later run that writes nothing leaves the directory as
\* it was, so every run after it does the same as it did.
C19_SkippedItemRetried ==
    (run >= 2 /\ Terminal /\ err = "" /\ failed = 0 /\ saved = 0)
    => skipped = {}

\* --------------------------------------------------------------------- C20
\* C20: a step of main that writes a document adds a file to the output
\* directory: the path written did not exist before the write.
C20_WriteNeverReplaces ==
    [][ saved' = saved + 1 => storage' # storage ]_vars

====
